---- MODULE Spec2Model ----
(***************************************************************************)
(* State-machine model of the RasteriCEr host driver (lib/gl/Renderer.hpp):*)
(* the command encoder that fills the back display list, commit with its   *)
(* drain loop, and the band walker uploadDisplayList that streams the      *)
(* front list to the bus one band at a time.                               *)
(*                                                                         *)
(* DisplayList.hpp, Rasterizer.hpp and IRenderer.hpp are not among the     *)
(* sources; their operations are modelled from the written specification   *)
(* (sections 3, 4.1 and 6.2).                                              *)
(***************************************************************************)
EXTENDS Integers, Sequences, FiniteSets, TLC

(* ------------------------------------------------------------------ *)
(* Template parameters of the instantiation that is checked, and sizes *)
(* ------------------------------------------------------------------ *)
DISPLAY_LIST_SIZE == 2124
DISPLAY_LIST_SIZE_ENC == 1100
DISPLAY_LINES == 2
LINE_RESOLUTION == 128
BUS_WIDTH == 32
HARDWARE_BUFFER_SIZE == 2048

\* sizeof(Rasterizer::RasterizedTriangle) and sizeof(const uint16_t*) in bytes
TRIANGLE_BYTES == 1020
POINTER_BYTES == 4

\* budgets of the explored runs
MaxCalls == 3
MaxFrames == 2
MaxCallsEnc == 2
MaxFramesEnc == 1
MaxCallsLive == 2

\* a list that the first frame fits in and that one triangle and one opcode fill
DISPLAY_LIST_SIZE_ABORT == 1028
MaxCallsAbort == 4

ALIGN == BUS_WIDTH \div 8

(* ------------------------------------------------------------------ *)
(* 16-bit arithmetic                                                   *)
(* ------------------------------------------------------------------ *)
U16(n) == n % 65536

\* F applied to the value of v (v is evaluated once)
Let(v, F(_)) == CHOOSE r \in { F(x) : x \in {v} } : TRUE

\* | and & on non-negative ints, four bits at a time
NibbleOr(x, y) ==
    LET or(p, q) == IF p % 2 = 1 \/ q % 2 = 1 THEN 1 ELSE 0
    IN  or(x, y) + 2 * or(x \div 2, y \div 2) + 4 * or(x \div 4, y \div 4)
        + 8 * or(x \div 8, y \div 8)

NibbleAnd(x, y) ==
    LET and(p, q) == IF p % 2 = 1 /\ q % 2 = 1 THEN 1 ELSE 0
    IN  and(x, y) + 2 * and(x \div 2, y \div 2) + 4 * and(x \div 4, y \div 4)
        + 8 * and(x \div 8, y \div 8)

RECURSIVE BitOr(_, _)
BitOr(a, b) ==
    IF a = 0 THEN b
    ELSE IF b = 0 THEN a
    ELSE NibbleOr(a % 16, b % 16) + 16 * BitOr(a \div 16, b \div 16)

RECURSIVE BitAnd(_, _)
BitAnd(a, b) ==
    IF a = 0 \/ b = 0 THEN 0
    ELSE NibbleAnd(a % 16, b % 16) + 16 * BitAnd(a \div 16, b \div 16)

B2N(b) == IF b THEN 1 ELSE 0

(* ------------------------------------------------------------------ *)
(* DisplayList<SIZE, ALIGNMENT>: a bounded byte arena.  mem holds the  *)
(* typed entries below writePos in order; positions are byte offsets.  *)
(* An entry is [ty, v, init, at]: at is its byte offset, init is false  *)
(* until the value is stored.                                          *)
(* ------------------------------------------------------------------ *)
FREE == "FREE"
QUEUED == "QUEUED"
TRANSFERRING == "TRANSFERRING"

RawSize(ty) ==
    CASE ty = "SCT" -> 2
      [] ty = "U16" -> 2
      [] ty = "TSA" -> POINTER_BYTES + 4
      [] ty = "TRI" -> TRIANGLE_BYTES

sizeOf(ty) == ((RawSize(ty) + ALIGN - 1) \div ALIGN) * ALIGN

\* the byte offset at which mem ends
MemBytes(mem) ==
    IF mem = <<>> THEN 0 ELSE mem[Len(mem)].at + sizeOf(mem[Len(mem)].ty)

\* the entries of mem that lie wholly below byte offset pos
MemBelow(mem, pos) == SelectSeq(mem, LAMBDA e : e.at + sizeOf(e.ty) <= pos)

\* index of the entry that starts at byte offset pos (0 when there is none)
IndexAt(mem, pos) ==
    IF \E i \in 1..Len(mem) : mem[i].at = pos
    THEN CHOOSE i \in 1..Len(mem) : mem[i].at = pos
    ELSE 0

\* the entries of a list without their offsets
Records(l) ==
    [i \in 1..Len(l.mem) |->
        [ty |-> l.mem[i].ty, v |-> l.mem[i].v, init |-> l.mem[i].init]]

EmptyList(cap) ==
    [cap |-> cap, mem |-> <<>>, writePos |-> 0, readPos |-> 0, state |-> FREE]

clear(l) == [l EXCEPT !.mem = <<>>, !.writePos = 0, !.readPos = 0, !.state = FREE]

enqueue(l) == [l EXCEPT !.state = QUEUED]

transfer(l) == [l EXCEPT !.state = TRANSFERRING]

canCreate(l, ty) == l.writePos + sizeOf(ty) <= l.cap

\* create<T>(): reserve one T at writePos; the list is unchanged when it does not fit
create(l, ty) ==
    IF canCreate(l, ty)
    THEN [l EXCEPT !.mem = Append(l.mem, [ty |-> ty, v |-> 0, init |-> FALSE,
                                          at |-> l.writePos]),
                   !.writePos = l.writePos + sizeOf(ty)]
    ELSE l

\* *ptr = v for the pointer the last create<T>() returned
store(l, v) == [l EXCEPT !.mem[Len(l.mem)] = [@ EXCEPT !.v = v, !.init = TRUE]]

\* remove<T>(): roll writePos back by sizeOf<T>()
remove(l, ty) ==
    LET wp == IF sizeOf(ty) <= l.writePos THEN l.writePos - sizeOf(ty) ELSE 0
    IN  [l EXCEPT !.writePos = wp, !.mem = MemBelow(l.mem, wp)]

canGetNext(l, ty) == l.readPos + sizeOf(ty) <= l.writePos

\* value read by getNext<T>() (the entry at readPos)
peekNext(l) ==
    LET i == IndexAt(l.mem, l.readPos)
    IN  IF i >= 1 /\ i <= Len(l.mem) THEN l.mem[i].v ELSE 0

advance(l, ty) == [l EXCEPT !.readPos = l.readPos + sizeOf(ty)]

resetGet(l) == [l EXCEPT !.readPos = 0]

atEnd(l) == l.readPos = l.writePos

getFreeSpace(l) == l.cap - l.writePos

getSize(l) == l.writePos

(* ------------------------------------------------------------------ *)
(* StreamCommand: | 4 bit OP | 12 bit IMM |                            *)
(* ------------------------------------------------------------------ *)
STREAM_COMMAND_OP_MASK == 61440
STREAM_COMMAND_IMM_MASK == 4095

TRIANGLE_SIZE_ALIGNED == U16(sizeOf("TRI"))

NOP == 0
TEXTURE_STREAM == 4096
SET_REG == 8192
FRAMEBUFFER_OP == 12288
TRIANGLE_STREAM == 16384

TEXTURE_STREAM_32x32 == BitOr(TEXTURE_STREAM, 17)
TEXTURE_STREAM_64x64 == BitOr(TEXTURE_STREAM, 34)
TEXTURE_STREAM_128x128 == BitOr(TEXTURE_STREAM, 68)
TEXTURE_STREAM_256x256 == BitOr(TEXTURE_STREAM, 136)

SET_COLOR_BUFFER_CLEAR_COLOR == BitOr(SET_REG, 0)
SET_DEPTH_BUFFER_CLEAR_DEPTH == BitOr(SET_REG, 1)
SET_CONF_REG1 == BitOr(SET_REG, 2)
SET_CONF_REG2 == BitOr(SET_REG, 3)
SET_TEX_ENV_COLOR == BitOr(SET_REG, 4)

FRAMEBUFFER_COMMIT == BitOr(FRAMEBUFFER_OP, 1)
FRAMEBUFFER_MEMSET == BitOr(FRAMEBUFFER_OP, 2)
FRAMEBUFFER_COLOR == BitOr(FRAMEBUFFER_OP, 16)
FRAMEBUFFER_DEPTH == BitOr(FRAMEBUFFER_OP, 32)

TRIANGLE_FULL == BitOr(TRIANGLE_STREAM, TRIANGLE_SIZE_ALIGNED)

OpClass(op) == BitAnd(op, STREAM_COMMAND_OP_MASK)

(* ------------------------------------------------------------------ *)
(* Enumerations of IRenderer (numeric encodings)                       *)
(* ------------------------------------------------------------------ *)
TestFunc_ALWAYS == 0
TestFunc_LESS == 2
TexEnvParam_MODULATE == 1
BlendFunc_ZERO == 0
BlendFunc_ONE == 1
TextureWrapMode_REPEAT == 0
TextureWrapMode_CLAMP_TO_EDGE == 1

(* ------------------------------------------------------------------ *)
(* Configuration registers: packed bit fields, first field in bit 0    *)
(* ------------------------------------------------------------------ *)
PackConfReg1(r) ==
      B2N(r.enableDepthTest)
    + 2 * r.depthFunc
    + 16 * r.alphaFunc
    + 128 * r.referenceAlphaValue
    + 2048 * B2N(r.depthMask)
    + 4096 * B2N(r.colorMaskA)
    + 8192 * B2N(r.colorMaskB)
    + 16384 * B2N(r.colorMaskG)
    + 32768 * B2N(r.colorMaskR)

PackConfReg2(r) ==
      B2N(r.perspectiveCorrectedTextures)
    + 2 * r.texEnvFunc
    + 16 * r.blendFuncSFactor
    + 256 * r.blendFuncDFactor
    + 4096 * B2N(r.texClampS)
    + 8192 * B2N(r.texClampT)

\* convertColor: RGBA8888 (Vec4i) to RGBA4444
convertColor(color) ==
    U16(BitOr(BitOr((color[4] \div 16) % 65536,
                    ((color[3] \div 16) % 65536) * 16),
              BitOr(((color[2] \div 16) % 65536) * 256,
                    ((color[1] \div 16) % 65536) * 4096)))

(* ------------------------------------------------------------------ *)
(* Rasterizer                                                          *)
(* ------------------------------------------------------------------ *)
\* rasterize(): false when the triangle has no visible coverage
rasterize(t) == t.vis

RasterizedTriangle(t) ==
    [yStart |-> t.y0, yEnd |-> t.y1, triangleStaticColor |-> 0, lineStart |-> 0]

\* calcLineIncrement(): false when the triangle has no pixel in [yLineStart, yLineEnd)
calcLineIncrement(tri, yLineStart, yLineEnd) ==
    tri.yStart < yLineEnd /\ tri.yEnd >= yLineStart

\* the triangle specialised to the band that starts at yLineStart
LineIncrement(tri, yLineStart) == [tri EXCEPT !.lineStart = yLineStart]

(* ------------------------------------------------------------------ *)
(* appendStreamCommand: opcode plus payload, rolled back when either   *)
(* create fails                                                        *)
(* ------------------------------------------------------------------ *)
\* variant: the opcode is not rolled back when the payload does not fit
appendStreamCommandNoRollback(displayList, op, ty, arg) ==
    LET opDl  == canCreate(displayList, "SCT")
        l1    == create(displayList, "SCT")
        argDl == canCreate(l1, ty)
        l2    == create(l1, ty)
    IN  IF ~(opDl /\ argDl)
        THEN [dl |-> IF argDl THEN remove(l2, ty) ELSE l2, ok |-> FALSE]
        ELSE [dl |-> [l2 EXCEPT !.mem[Len(l2.mem) - 1] = [@ EXCEPT !.v = op, !.init = TRUE],
                                !.mem[Len(l2.mem)] = [@ EXCEPT !.v = arg, !.init = TRUE]],
              ok |-> TRUE]

\* variant: the rollback of the opcode removes one TArg instead of one SCT
appendStreamCommandWrongRemove(displayList, op, ty, arg) ==
    LET opDl  == canCreate(displayList, "SCT")
        l1    == create(displayList, "SCT")
        argDl == canCreate(l1, ty)
        l2    == create(l1, ty)
        l3    == IF opDl THEN remove(l2, ty) ELSE l2
        l4    == IF argDl THEN remove(l3, ty) ELSE l3
    IN  IF ~(opDl /\ argDl)
        THEN [dl |-> l4, ok |-> FALSE]
        ELSE [dl |-> [l2 EXCEPT !.mem[Len(l2.mem) - 1] = [@ EXCEPT !.v = op, !.init = TRUE],
                                !.mem[Len(l2.mem)] = [@ EXCEPT !.v = arg, !.init = TRUE]],
              ok |-> TRUE]

appendStreamCommand(displayList, op, ty, arg) ==
    LET opDl  == canCreate(displayList, "SCT")
        l1    == create(displayList, "SCT")
        argDl == canCreate(l1, ty)
        l2    == create(l1, ty)
        l3    == IF opDl THEN remove(l2, "SCT") ELSE l2
        l4    == IF argDl THEN remove(l3, ty) ELSE l3
    IN  IF ~(opDl /\ argDl)
        THEN [dl |-> l4, ok |-> FALSE]
        ELSE [dl |-> [l2 EXCEPT !.mem[Len(l2.mem) - 1] = [@ EXCEPT !.v = op, !.init = TRUE],
                                !.mem[Len(l2.mem)] = [@ EXCEPT !.v = arg, !.init = TRUE]],
              ok |-> TRUE]

\* a single opcode without payload (clear, commit)
appendOp(displayList, op) ==
    IF canCreate(displayList, "SCT")
    THEN [dl |-> store(create(displayList, "SCT"), op), ok |-> TRUE]
    ELSE [dl |-> displayList, ok |-> FALSE]

\* variant: the guard of the fill loop asks for the room of one opcode only
hasEnoughSpaceForOpcode(displayList) ==
    getFreeSpace(displayList) >= sizeOf("SCT")

hasEnoughSpace(displayList) ==
    getFreeSpace(displayList) >= sizeOf("SCT") + sizeOf("TRI")

\* opcode written by clear(colorBuffer, depthBuffer)
clearOp(colorBuffer, depthBuffer) ==
    LET opColorBuffer == BitOr(FRAMEBUFFER_MEMSET, FRAMEBUFFER_COLOR)
        opDepthBuffer == BitOr(FRAMEBUFFER_MEMSET, FRAMEBUFFER_DEPTH)
    IN  IF colorBuffer /\ depthBuffer THEN BitOr(opColorBuffer, opDepthBuffer)
        ELSE IF colorBuffer THEN opColorBuffer
        ELSE IF depthBuffer THEN opDepthBuffer
        ELSE NOP

\* variant: the check for a square texture is left out
textureOpAnyHeight(texWidth, texHeight) ==
    IF texWidth = 256 THEN TEXTURE_STREAM_256x256
    ELSE IF texWidth = 128 THEN TEXTURE_STREAM_128x128
    ELSE IF texWidth = 64 THEN TEXTURE_STREAM_64x64
    ELSE IF texWidth = 32 THEN TEXTURE_STREAM_32x32
    ELSE -1

\* opcode chosen by useTexture, or -1 when the size is rejected
textureOp(texWidth, texHeight) ==
    IF texWidth # texHeight THEN -1
    ELSE IF texWidth = 256 THEN TEXTURE_STREAM_256x256
    ELSE IF texWidth = 128 THEN TEXTURE_STREAM_128x128
    ELSE IF texWidth = 64 THEN TEXTURE_STREAM_64x64
    ELSE IF texWidth = 32 THEN TEXTURE_STREAM_32x32
    ELSE -1

TextureStreamArg(pixels, texWidth, texHeight) ==
    [pixels |-> pixels, remainingPixels |-> texWidth * texHeight]

\* variant: a triangle outside the current band stays in the upload list
FillTriangleKeep(w, idx) ==
    LET triangleConf == peekNext(w.fl)
        okGet == canGetNext(w.fl, "TRI")
        okNew == canCreate(w.up, "TRI")
        up1   == create(w.up, "TRI")
        currentScreenPositionStart == U16(idx * LINE_RESOLUTION)
    IN  IF ~(okGet /\ okNew) THEN [w EXCEPT !.fault = TRUE]
        ELSE [w EXCEPT !.fl = advance(w.fl, "TRI"),
                       !.up = store(up1, LineIncrement(triangleConf,
                                                       currentScreenPositionStart))]

(* ------------------------------------------------------------------ *)
(* uploadDisplayList: one tick of the band walker.                     *)
(* The walk state w carries the front list fl, the upload list up, the *)
(* texture cursor tsa, leaveLoop, and fault (a null result of create   *)
(* or getNext was dereferenced).                                       *)
(* ------------------------------------------------------------------ *)
\* case TRIANGLE_STREAM of the fill loop; w.up already holds the copied opcode
FillTriangle(w, idx) ==
    Let(peekNext(w.fl), LAMBDA triangleConf :
    Let(create(w.up, "TRI"), LAMBDA up1 :
    LET okGet == canGetNext(w.fl, "TRI")
        okNew == canCreate(w.up, "TRI")
        currentScreenPositionStart == U16(idx * LINE_RESOLUTION)
        currentScreenPositionEnd == U16((idx + 1) * LINE_RESOLUTION)
    IN  IF ~(okGet /\ okNew) THEN [w EXCEPT !.fault = TRUE]
        ELSE IF calcLineIncrement(triangleConf, currentScreenPositionStart,
                                  currentScreenPositionEnd)
        THEN [w EXCEPT !.fl = advance(w.fl, "TRI"),
                       !.up = store(up1, LineIncrement(triangleConf,
                                                       currentScreenPositionStart))]
        ELSE [w EXCEPT !.fl = advance(w.fl, "TRI"),
                       !.up = remove(remove(up1, "TRI"), "SCT")]))

\* variant: the dedup check is left out, every TEXTURE_STREAM command is uploaded
FillTextureNoDedup(w) ==
    Let(peekNext(w.fl), LAMBDA new :
        IF ~canGetNext(w.fl, "TSA") THEN [w EXCEPT !.fault = TRUE]
        ELSE [w EXCEPT !.fl = advance(w.fl, "TSA"),
                       !.tsa = new,
                       !.leaveLoop = TRUE])

\* case TEXTURE_STREAM of the fill loop
FillTexture(w) ==
    Let(peekNext(w.fl), LAMBDA new :
    LET curr == w.tsa
    IN  IF ~canGetNext(w.fl, "TSA") THEN [w EXCEPT !.fault = TRUE]
        ELSE IF new.pixels + new.remainingPixels = curr.pixels
        THEN [w EXCEPT !.fl = advance(w.fl, "TSA"),
                       !.tsa = [pixels |-> new.pixels + new.remainingPixels,
                                remainingPixels |-> 0],
                       !.up = remove(w.up, "SCT")]
        ELSE [w EXCEPT !.fl = advance(w.fl, "TSA"),
                       !.tsa = new,
                       !.leaveLoop = TRUE])

\* variant: the payload of a SET_REG command is not copied, the upload list gets 0
FillSetRegZero(w) ==
    IF ~(canGetNext(w.fl, "U16") /\ canCreate(w.up, "U16"))
    THEN [w EXCEPT !.fault = TRUE]
    ELSE [w EXCEPT !.fl = advance(w.fl, "U16"),
                   !.up = store(create(w.up, "U16"), 0)]

\* case SET_REG of the fill loop
FillSetReg(w) ==
    IF ~(canGetNext(w.fl, "U16") /\ canCreate(w.up, "U16"))
    THEN [w EXCEPT !.fault = TRUE]
    ELSE [w EXCEPT !.fl = advance(w.fl, "U16"),
                   !.up = store(create(w.up, "U16"), peekNext(w.fl))]

\* one iteration of the fill loop, after getNext<SCT>() returned an opcode
FillOne(w, idx) ==
    Let(peekNext(w.fl), LAMBDA op :
    Let([w EXCEPT !.fl = advance(w.fl, "SCT"),
                  !.up = store(create(w.up, "SCT"), op)], LAMBDA w1 :
    Let(OpClass(op), LAMBDA cl :
        IF ~canCreate(w.up, "SCT") THEN [w EXCEPT !.fault = TRUE]
        ELSE IF cl = TRIANGLE_STREAM THEN FillTriangle(w1, idx)
        ELSE IF cl = FRAMEBUFFER_OP \/ cl = NOP THEN w1
        ELSE IF cl = TEXTURE_STREAM THEN FillTexture(w1)
        ELSE IF cl = SET_REG THEN FillSetReg(w1)
        ELSE [w1 EXCEPT !.up = remove(w1.up, "SCT")])))

\* while (!leaveLoop && hasEnoughSpace(m_displayListUpload)) { ... }
RECURSIVE FillLoop(_, _)
FillLoop(w, idx) ==
    IF w.leaveLoop \/ w.fault \/ ~hasEnoughSpace(w.up) THEN w
    ELSE IF ~canGetNext(w.fl, "SCT") THEN w
    ELSE CHOOSE r \in { FillLoop(n, idx) : n \in {FillOne(w, idx)} } : TRUE

\* bus calls: startColorBufferTransfer(index), writeData of the upload list (noted
\* with the band and the texture cursor it was built under), writeData of pixels
NoCursor == [pixels |-> 0, remainingPixels |-> 0]
EvStart(index) == [t |-> "start", a |-> index, len |-> 0, recs |-> <<>>, cur |-> NoCursor]
EvList(l, index, tsa) ==
    [t |-> "list", a |-> index, len |-> getSize(l), recs |-> Records(l), cur |-> tsa]
EvTexture(pixels, len) ==
    [t |-> "texture", a |-> pixels, len |-> len, recs |-> <<>>, cur |-> NoCursor]

PIXEL_INC == HARDWARE_BUFFER_SIZE \div 2

\* variant: the cursor advances by the bytes written instead of the pixels written
UploadTextureChunkByBytes(fl, up, idx, tsa) ==
    [fl |-> fl, up |-> up, idx |-> idx,
     tsa |-> [pixels |-> tsa.pixels + HARDWARE_BUFFER_SIZE,
              remainingPixels |-> tsa.remainingPixels - HARDWARE_BUFFER_SIZE],
     ret |-> TRUE, fault |-> FALSE,
     ev |-> <<EvTexture(tsa.pixels, HARDWARE_BUFFER_SIZE)>>]

\* the texture chunk branch
UploadTextureChunk(fl, up, idx, tsa) ==
    [fl |-> fl, up |-> up, idx |-> idx,
     tsa |-> [pixels |-> tsa.pixels + PIXEL_INC,
              remainingPixels |-> tsa.remainingPixels - PIXEL_INC],
     ret |-> TRUE, fault |-> FALSE,
     ev |-> <<EvTexture(tsa.pixels, HARDWARE_BUFFER_SIZE)>>]

\* variant: a band that is not the last one ends without rewinding the front list
AfterFlushNoRewind(w, idx, ev) ==
    IF atEnd(w.fl)
    THEN IF idx = 0
         THEN [fl |-> clear(resetGet(w.fl)), up |-> w.up, idx |-> idx, tsa |-> w.tsa,
               ret |-> FALSE, fault |-> w.fault, ev |-> ev]
         ELSE [fl |-> w.fl, up |-> w.up, idx |-> idx - 1, tsa |-> w.tsa,
               ret |-> TRUE, fault |-> w.fault, ev |-> ev]
    ELSE [fl |-> w.fl, up |-> w.up, idx |-> idx, tsa |-> w.tsa,
          ret |-> TRUE, fault |-> w.fault, ev |-> ev]

\* variant: the last band ends the frame without clearing the front list
AfterFlushNoClear(w, idx, ev) ==
    IF atEnd(w.fl)
    THEN IF idx = 0
         THEN [fl |-> resetGet(w.fl), up |-> w.up, idx |-> idx, tsa |-> w.tsa,
               ret |-> FALSE, fault |-> w.fault, ev |-> ev]
         ELSE [fl |-> resetGet(w.fl), up |-> w.up, idx |-> idx - 1, tsa |-> w.tsa,
               ret |-> TRUE, fault |-> w.fault, ev |-> ev]
    ELSE [fl |-> w.fl, up |-> w.up, idx |-> idx, tsa |-> w.tsa,
          ret |-> TRUE, fault |-> w.fault, ev |-> ev]

\* variant: the tick that ends the frame still reports an upload in progress
AfterFlushStillBusy(w, idx, ev) ==
    IF atEnd(w.fl)
    THEN IF idx = 0
         THEN [fl |-> clear(resetGet(w.fl)), up |-> w.up, idx |-> idx, tsa |-> w.tsa,
               ret |-> TRUE, fault |-> w.fault, ev |-> ev]
         ELSE [fl |-> resetGet(w.fl), up |-> w.up, idx |-> idx - 1, tsa |-> w.tsa,
               ret |-> TRUE, fault |-> w.fault, ev |-> ev]
    ELSE [fl |-> w.fl, up |-> w.up, idx |-> idx, tsa |-> w.tsa,
          ret |-> TRUE, fault |-> w.fault, ev |-> ev]

\* what follows the two bus calls of a flush: rewind, next band or end of frame
AfterFlush(w, idx, ev) ==
    IF atEnd(w.fl)
    THEN IF idx = 0
         THEN [fl |-> clear(resetGet(w.fl)), up |-> w.up, idx |-> idx, tsa |-> w.tsa,
               ret |-> FALSE, fault |-> w.fault, ev |-> ev]
         ELSE [fl |-> resetGet(w.fl), up |-> w.up, idx |-> idx - 1, tsa |-> w.tsa,
               ret |-> TRUE, fault |-> w.fault, ev |-> ev]
    ELSE [fl |-> w.fl, up |-> w.up, idx |-> idx, tsa |-> w.tsa,
          ret |-> TRUE, fault |-> w.fault, ev |-> ev]

\* the fill-and-flush branch
UploadFlush(fl, up, idx, tsa) ==
    CHOOSE r \in { AfterFlush(w, idx, <<EvStart(idx), EvList(w.up, idx, w.tsa)>>) :
                   w \in { FillLoop(n, idx) :
                           n \in {[fl |-> fl, up |-> clear(up), tsa |-> tsa,
                                   leaveLoop |-> FALSE, fault |-> FALSE]} } } : TRUE

\* variant: the walker goes on filling while a texture upload is pending
UploadTransferringNoChunks(fl, up, idx, tsa) ==
    UploadFlush(fl, up, idx, tsa)

\* the body of uploadDisplayList once the front list is TRANSFERRING
UploadTransferring(fl, up, idx, tsa) ==
    IF tsa.remainingPixels > 0
    THEN UploadTextureChunk(fl, up, idx, tsa)
    ELSE UploadFlush(fl, up, idx, tsa)

\* variant: the walk starts one band too high
StartIndexOffByOne == DISPLAY_LINES

\* the band a newly queued frame starts with
StartIndex == DISPLAY_LINES - 1

\* variant: with nothing to upload the walker still reports an upload in progress
UploadClearToSendBusy(fl, up, idx, tsa) ==
    LET idx1 == IF fl.state = QUEUED THEN StartIndex ELSE idx
        fl1  == IF fl.state = QUEUED THEN transfer(fl) ELSE fl
    IN  IF fl1.state = TRANSFERRING
        THEN UploadTransferring(fl1, up, idx1, tsa)
        ELSE [fl |-> fl1, up |-> up, idx |-> idx1, tsa |-> tsa,
              ret |-> TRUE, fault |-> FALSE, ev |-> <<>>]

\* uploadDisplayList() once the bus is clear to send
UploadClearToSend(fl, up, idx, tsa) ==
    Let(IF fl.state = QUEUED THEN StartIndex ELSE idx, LAMBDA idx1 :
    Let(IF fl.state = QUEUED THEN transfer(fl) ELSE fl, LAMBDA fl1 :
        IF fl1.state = TRANSFERRING
        THEN UploadTransferring(fl1, up, idx1, tsa)
        ELSE [fl |-> fl1, up |-> up, idx |-> idx1, tsa |-> tsa,
              ret |-> FALSE, fault |-> FALSE, ev |-> <<>>]))

\* variant: the walker runs without looking at clearToSend()
uploadDisplayListIgnoreBus(fl, up, idx, tsa, cts) ==
    UploadClearToSend(fl, up, idx, tsa)

\* uploadDisplayList() with clearToSend() = cts, on front list fl
uploadDisplayList(fl, up, idx, tsa, cts) ==
    IF ~cts
    THEN [fl |-> fl, up |-> up, idx |-> idx, tsa |-> tsa,
          ret |-> TRUE, fault |-> FALSE, ev |-> <<>>]
    ELSE UploadClearToSend(fl, up, idx, tsa)

(* ------------------------------------------------------------------ *)
(* Encoder calls as functions of e = [dl, r1, r2]: the back list and   *)
(* the two in-memory registers.  The result adds ok (the return value) *)
(* and recs (the records the call set out to append).                  *)
(* ------------------------------------------------------------------ *)
Entry(ty, v) == [ty |-> ty, v |-> v, init |-> TRUE]

Rec(op, ty, arg) == <<Entry("SCT", op), Entry(ty, arg)>>

EncAppend(e, op, ty, arg) ==
    LET a == appendStreamCommand(e.dl, op, ty, arg)
    IN  [dl |-> a.dl, r1 |-> e.r1, r2 |-> e.r2, ok |-> a.ok, recs |-> Rec(op, ty, arg)]

EncReg1(e, r1) == EncAppend([e EXCEPT !.r1 = r1], SET_CONF_REG1, "U16", PackConfReg1(r1))

EncReg2(e, r2) == EncAppend([e EXCEPT !.r2 = r2], SET_CONF_REG2, "U16", PackConfReg2(r2))

setClearColor(e, color) ==
    EncAppend(e, SET_COLOR_BUFFER_CLEAR_COLOR, "U16", convertColor(color))

setClearDepth(e, depth) == EncAppend(e, SET_DEPTH_BUFFER_CLEAR_DEPTH, "U16", depth)

setDepthMask(e, flag) == EncReg1(e, [e.r1 EXCEPT !.depthMask = flag])

enableDepthTest(e, enable) == EncReg1(e, [e.r1 EXCEPT !.enableDepthTest = enable])

setColorMask(e, r, g, b, a) ==
    EncReg1(e, [e.r1 EXCEPT !.colorMaskA = a, !.colorMaskB = b,
                            !.colorMaskG = g, !.colorMaskR = r])

setDepthFunc(e, func) == EncReg1(e, [e.r1 EXCEPT !.depthFunc = func % 8])

setAlphaFunc(e, func, ref) ==
    EncReg1(e, [e.r1 EXCEPT !.alphaFunc = func % 8, !.referenceAlphaValue = ref % 16])

setTexEnv(e, param) == EncReg2(e, [e.r2 EXCEPT !.texEnvFunc = param % 8])

setBlendFunc(e, sfactor, dfactor) ==
    EncReg2(e, [e.r2 EXCEPT !.blendFuncSFactor = sfactor % 16,
                            !.blendFuncDFactor = dfactor % 16])

setLogicOp(e, opcode) ==
    [dl |-> e.dl, r1 |-> e.r1, r2 |-> e.r2, ok |-> FALSE, recs |-> <<>>]

setTexEnvColor(e, color) == EncAppend(e, SET_TEX_ENV_COLOR, "U16", convertColor(color))

setTextureWrapModeS(e, mode) ==
    EncReg2(e, [e.r2 EXCEPT !.texClampS = (mode = TextureWrapMode_CLAMP_TO_EDGE)])

setTextureWrapModeT(e, mode) ==
    EncReg2(e, [e.r2 EXCEPT !.texClampT = (mode = TextureWrapMode_CLAMP_TO_EDGE)])

useTexture(e, pixels, texWidth, texHeight) ==
    IF textureOp(texWidth, texHeight) = -1
    THEN [dl |-> e.dl, r1 |-> e.r1, r2 |-> e.r2, ok |-> FALSE, recs |-> <<>>]
    ELSE EncAppend(e, textureOp(texWidth, texHeight), "TSA",
                   TextureStreamArg(pixels, texWidth, texHeight))

clearBuffers(e, colorBuffer, depthBuffer) ==
    LET a == appendOp(e.dl, clearOp(colorBuffer, depthBuffer))
    IN  [dl |-> a.dl, r1 |-> e.r1, r2 |-> e.r2, ok |-> a.ok,
         recs |-> <<Entry("SCT", clearOp(colorBuffer, depthBuffer))>>]

\* the append of drawTriangle for a visible triangle
drawTriangleAppend(e, t, color) ==
    EncAppend(e, TRIANGLE_FULL, "TRI",
              [RasterizedTriangle(t) EXCEPT !.triangleStaticColor = convertColor(color)])

(* ------------------------------------------------------------------ *)
(* Construction.  The registers are members without initialiser: what  *)
(* the constructor does not assign holds whatever the storage held,    *)
(* sampled here as all bits clear or all bits set.                     *)
(* ------------------------------------------------------------------ *)
UninitFill == {0, 1}

RawConfReg1(f) ==
    [enableDepthTest |-> f = 1, depthFunc |-> 7 * f, alphaFunc |-> 7 * f,
     referenceAlphaValue |-> 15 * f, depthMask |-> f = 1, colorMaskA |-> f = 1,
     colorMaskB |-> f = 1, colorMaskG |-> f = 1, colorMaskR |-> f = 1]

RawConfReg2(f) ==
    [perspectiveCorrectedTextures |-> TRUE, texEnvFunc |-> 7 * f,
     blendFuncSFactor |-> 15 * f, blendFuncDFactor |-> 15 * f,
     texClampS |-> f = 1, texClampT |-> f = 1]

Black == <<0, 0, 0, 0>>

\* the calls of the constructor body, in order
ConstructorCalls ==
    << <<"setDepthFunc", TestFunc_LESS>>,
       <<"setDepthMask", FALSE>>,
       <<"setColorMask", TRUE, TRUE, TRUE, TRUE>>,
       <<"setAlphaFunc", TestFunc_ALWAYS, 15>>,
       <<"setTexEnv", TexEnvParam_MODULATE>>,
       <<"setBlendFunc", BlendFunc_ONE, BlendFunc_ZERO>>,
       <<"setLogicOp", 0>>,
       <<"setTexEnvColor", Black>>,
       <<"setClearColor", Black>>,
       <<"setClearDepth", 65535>> >>

CallSetter(e, c) ==
    CASE c[1] = "setDepthFunc" -> setDepthFunc(e, c[2])
      [] c[1] = "setDepthMask" -> setDepthMask(e, c[2])
      [] c[1] = "setColorMask" -> setColorMask(e, c[2], c[3], c[4], c[5])
      [] c[1] = "setAlphaFunc" -> setAlphaFunc(e, c[2], c[3])
      [] c[1] = "setTexEnv" -> setTexEnv(e, c[2])
      [] c[1] = "setBlendFunc" -> setBlendFunc(e, c[2], c[3])
      [] c[1] = "setLogicOp" -> setLogicOp(e, c[2])
      [] c[1] = "setTexEnvColor" -> setTexEnvColor(e, c[2])
      [] c[1] = "setClearColor" -> setClearColor(e, c[2])
      [] c[1] = "setClearDepth" -> setClearDepth(e, c[2])

\* s = [e, recs]: the encoder state and the records appended so far
RECURSIVE RunCalls(_, _)
RunCalls(s, cs) ==
    IF cs = <<>> THEN s
    ELSE CHOOSE x \in
           { RunCalls([e |-> [dl |-> r.dl, r1 |-> r.r1, r2 |-> r.r2],
                       recs |-> IF r.ok THEN s.recs \o r.recs ELSE s.recs], Tail(cs)) :
             r \in {CallSetter(s.e, Head(cs))} } : TRUE

\* Renderer(IBusConnector&): m_backList = 1 receives the initial register records
Constructor(size, f) ==
    RunCalls([e |-> [dl |-> EmptyList(size),
                     r1 |-> RawConfReg1(f), r2 |-> RawConfReg2(f)],
              recs |-> <<>>], ConstructorCalls)

(* ------------------------------------------------------------------ *)
(* State                                                               *)
(* ------------------------------------------------------------------ *)
VARIABLES
    m_displayList,          \* the two frame lists
    m_displayListUpload,    \* the upload list
    m_frontList,
    m_backList,
    m_uploadIndexPosition,
    m_textureStreamArg,
    m_confReg1,
    m_confReg2,
    pc,                     \* position of the caller: idle, or inside commit
    calls,                  \* encoder calls made so far
    frames,                 \* commit calls made so far
    last,                   \* the last public call: name, return value, records
    tick,                   \* the last step's uploadDisplayList call, if it made one
    bus,                    \* bus calls since the front list was swapped in
    accepted,               \* records the successful calls put in the back list
    frameRecs               \* the same for the frame that was swapped to the front

vars == <<m_displayList, m_displayListUpload, m_frontList, m_backList,
          m_uploadIndexPosition, m_textureStreamArg, m_confReg1, m_confReg2,
          pc, calls, frames, last, tick, bus, accepted, frameRecs>>

Back == m_displayList[m_backList]
Front == m_displayList[m_frontList]
Enc == [dl |-> Back, r1 |-> m_confReg1, r2 |-> m_confReg2]

NoTick == [ran |-> FALSE, cts |-> FALSE, ret |-> FALSE, fault |-> FALSE, ev |-> <<>>]

\* the state after construction of Renderer<size, DISPLAY_LINES, LINE_RESOLUTION, BUS_WIDTH>
InitOf(size) ==
    \E f \in UninitFill :
        \E c \in {Constructor(size, f)} :
            /\ m_displayList = [i \in {0, 1} |->
                                  IF i = 1 THEN c.e.dl ELSE EmptyList(size)]
            /\ m_displayListUpload = EmptyList(HARDWARE_BUFFER_SIZE)
            /\ m_frontList = 0
            /\ m_backList = 1
            /\ m_uploadIndexPosition = 0
            /\ m_textureStreamArg = [pixels |-> 0, remainingPixels |-> 0]
            /\ m_confReg1 = c.e.r1
            /\ m_confReg2 = c.e.r2
            /\ pc = "idle"
            /\ calls = 0
            /\ frames = 0
            /\ last = [op |-> "Renderer", ret |-> TRUE, recs |-> <<>>]
            /\ tick = NoTick
            /\ bus = <<>>
            /\ accepted = c.recs
            /\ frameRecs = <<>>

(* ------------------------------------------------------------------ *)
(* Actions                                                             *)
(* ------------------------------------------------------------------ *)
\* an encoder call that does not run the walker; r is the call's result
EncoderCall(name, res) ==
  \E r \in {res} :
    /\ pc = "idle"
    /\ m_displayList' = [m_displayList EXCEPT ![m_backList] = r.dl]
    /\ m_confReg1' = r.r1
    /\ m_confReg2' = r.r2
    /\ last' = [op |-> name, ret |-> r.ok, recs |-> r.recs]
    /\ accepted' = IF r.ok THEN accepted \o r.recs ELSE accepted
    /\ calls' = calls + 1
    /\ tick' = NoTick
    /\ UNCHANGED <<m_displayListUpload, m_frontList, m_backList, m_uploadIndexPosition,
                   m_textureStreamArg, pc, frames, bus, frameRecs>>

\* uploadDisplayList() on the current state, with clearToSend() = cts
TickResult(cts) ==
    uploadDisplayList(Front, m_displayListUpload, m_uploadIndexPosition,
                      m_textureStreamArg, cts)

\* the effect of the tick u on the driver, lists being the frame lists before it
ApplyTick(res, cts, lists) ==
  \E u \in {res} :
    /\ m_displayList' = [lists EXCEPT ![m_frontList] = u.fl]
    /\ m_displayListUpload' = u.up
    /\ m_uploadIndexPosition' = u.idx
    /\ m_textureStreamArg' = u.tsa
    /\ tick' = [ran |-> TRUE, cts |-> cts, ret |-> u.ret, fault |-> u.fault, ev |-> u.ev]
    /\ bus' = bus \o u.ev

DrawTriangle(t, color, cts) ==
    /\ pc = "idle"
    /\ calls' = calls + 1
    /\ IF ~rasterize(t)
       THEN /\ last' = [op |-> "drawTriangle", ret |-> TRUE, recs |-> <<>>]
            /\ tick' = NoTick
            /\ UNCHANGED <<m_displayList, m_displayListUpload, m_uploadIndexPosition,
                           m_textureStreamArg, bus, accepted>>
       ELSE \E r \in {drawTriangleAppend(Enc, t, color)} :
                /\ ApplyTick(TickResult(cts), cts,
                             [m_displayList EXCEPT ![m_backList] = r.dl])
                /\ last' = [op |-> "drawTriangle", ret |-> r.ok, recs |-> r.recs]
                /\ accepted' = IF r.ok THEN accepted \o r.recs ELSE accepted
    /\ UNCHANGED <<m_frontList, m_backList, m_confReg1, m_confReg2, pc, frames, frameRecs>>

CommitOp == BitOr(FRAMEBUFFER_COMMIT, FRAMEBUFFER_COLOR)

\* variant: a commit whose opcode does not fit returns without clearing the back list
CommitBeginNoClear ==
    \E a \in {appendOp(Back, CommitOp)} :
        /\ pc = "idle"
        /\ frames' = frames + 1
        /\ tick' = NoTick
        /\ last' = [op |-> "commit", ret |-> a.ok, recs |-> <<Entry("SCT", CommitOp)>>]
        /\ IF a.ok
           THEN /\ m_displayList' = [m_displayList EXCEPT ![m_backList] = a.dl]
                /\ accepted' = Append(accepted, Entry("SCT", CommitOp))
                /\ pc' = "drain"
           ELSE /\ m_displayList' = m_displayList
                /\ accepted' = accepted
                /\ pc' = "idle"
        /\ UNCHANGED <<m_displayListUpload, m_frontList, m_backList, m_uploadIndexPosition,
                       m_textureStreamArg, m_confReg1, m_confReg2, calls, bus, frameRecs>>

\* commit(), up to the drain loop: append the commit opcode or discard the back list
CommitBegin ==
    \E a \in {appendOp(Back, CommitOp)} :
        /\ pc = "idle"
        /\ frames' = frames + 1
        /\ tick' = NoTick
        /\ last' = [op |-> "commit", ret |-> a.ok, recs |-> <<Entry("SCT", CommitOp)>>]
        /\ IF a.ok
           THEN /\ m_displayList' = [m_displayList EXCEPT ![m_backList] = a.dl]
                /\ accepted' = Append(accepted, Entry("SCT", CommitOp))
                /\ pc' = "drain"
           ELSE /\ m_displayList' = [m_displayList EXCEPT ![m_backList] = clear(Back)]
                /\ accepted' = <<>>
                /\ pc' = "idle"
        /\ UNCHANGED <<m_displayListUpload, m_frontList, m_backList, m_uploadIndexPosition,
                       m_textureStreamArg, m_confReg1, m_confReg2, calls, bus, frameRecs>>

\* one evaluation of while (uploadDisplayList());
CommitDrain(cts) ==
    /\ pc = "drain"
    /\ \E u \in {TickResult(cts)} :
           /\ ApplyTick(u, cts, m_displayList)
           /\ pc' = IF u.ret THEN "drain" ELSE "swap"
    /\ UNCHANGED <<m_frontList, m_backList, m_confReg1, m_confReg2, calls, frames,
                   last, accepted, frameRecs>>

\* variant: the display lists are switched without enqueueing the back list
CommitSwapNoEnqueue ==
    /\ pc = "swap"
    /\ m_backList' = IF m_backList = 0 THEN 1 ELSE 0
    /\ m_frontList' = IF m_backList = 0 THEN 0 ELSE 1
    /\ pc' = "kick"
    /\ tick' = NoTick
    /\ bus' = <<>>
    /\ frameRecs' = accepted
    /\ accepted' = <<>>
    /\ UNCHANGED <<m_displayList, m_displayListUpload, m_uploadIndexPosition,
                   m_textureStreamArg, m_confReg1, m_confReg2, calls, frames, last>>

\* enqueue the back list and switch the display lists
CommitSwap ==
    /\ pc = "swap"
    /\ m_displayList' = [m_displayList EXCEPT ![m_backList] = enqueue(Back)]
    /\ m_backList' = IF m_backList = 0 THEN 1 ELSE 0
    /\ m_frontList' = IF m_backList = 0 THEN 0 ELSE 1
    /\ pc' = "kick"
    /\ tick' = NoTick
    /\ bus' = <<>>
    /\ frameRecs' = accepted
    /\ accepted' = <<>>
    /\ UNCHANGED <<m_displayListUpload, m_uploadIndexPosition, m_textureStreamArg,
                   m_confReg1, m_confReg2, calls, frames, last>>

\* the final uploadDisplayList() of commit
CommitKick(cts) ==
    /\ pc = "kick"
    /\ ApplyTick(TickResult(cts), cts, m_displayList)
    /\ pc' = "idle"
    /\ UNCHANGED <<m_frontList, m_backList, m_confReg1, m_confReg2, calls, frames,
                   last, accepted, frameRecs>>

UseTexture(pixels, texWidth, texHeight) ==
    EncoderCall("useTexture", useTexture(Enc, pixels, texWidth, texHeight))

Clear(colorBuffer, depthBuffer) ==
    EncoderCall("clear", clearBuffers(Enc, colorBuffer, depthBuffer))

SetClearColor(color) == EncoderCall("setClearColor", setClearColor(Enc, color))

SetClearDepth(depth) == EncoderCall("setClearDepth", setClearDepth(Enc, depth))

SetDepthMask(flag) == EncoderCall("setDepthMask", setDepthMask(Enc, flag))

EnableDepthTest(enable) == EncoderCall("enableDepthTest", enableDepthTest(Enc, enable))

SetColorMask(r, g, b, a) == EncoderCall("setColorMask", setColorMask(Enc, r, g, b, a))

SetDepthFunc(func) == EncoderCall("setDepthFunc", setDepthFunc(Enc, func))

SetAlphaFunc(func, ref) == EncoderCall("setAlphaFunc", setAlphaFunc(Enc, func, ref))

SetTexEnv(param) == EncoderCall("setTexEnv", setTexEnv(Enc, param))

SetBlendFunc(sfactor, dfactor) ==
    EncoderCall("setBlendFunc", setBlendFunc(Enc, sfactor, dfactor))

SetLogicOp(opcode) == EncoderCall("setLogicOp", setLogicOp(Enc, opcode))

SetTexEnvColor(color) == EncoderCall("setTexEnvColor", setTexEnvColor(Enc, color))

SetTextureWrapModeS(mode) ==
    EncoderCall("setTextureWrapModeS", setTextureWrapModeS(Enc, mode))

SetTextureWrapModeT(mode) ==
    EncoderCall("setTextureWrapModeT", setTextureWrapModeT(Enc, mode))

(* ------------------------------------------------------------------ *)
(* Inputs                                                              *)
(* ------------------------------------------------------------------ *)
\* an invisible triangle, one inside band 0, one across bands 0 and 1
TriInputs ==
    { [vis |-> FALSE, y0 |-> 0, y1 |-> 0],
      [vis |-> TRUE, y0 |-> 10, y1 |-> 50],
      [vis |-> TRUE, y0 |-> LINE_RESOLUTION - 28, y1 |-> LINE_RESOLUTION + 72] }

White == <<255, 255, 255, 255>>
Grey == <<16, 32, 48, 64>>

\* pixel buffers of the caller (addresses in pixels)
PixelsA == 8192
PixelsB == 16384

TexInputs == { <<PixelsA, 64, 64>>, <<PixelsB, 32, 32>> }
TexInputsEnc == TexInputs \cup { <<PixelsA, 64, 32>>, <<PixelsA, 16, 16>> }

\* a 32 x 32 texture kept in the last 1024 pixels of the 64 x 64 buffer
PixelsTail == PixelsA + 64 * 64 - 32 * 32
TexInputsOverlap == TexInputs \cup { <<PixelsTail, 32, 32>> }

(* ------------------------------------------------------------------ *)
(* Specifications                                                      *)
(* ------------------------------------------------------------------ *)
\* the frame pipeline: a few kinds of record, several frames
Next ==
    \/ calls < MaxCalls /\ \E t \in TriInputs, cts \in BOOLEAN : DrawTriangle(t, White, cts)
    \/ calls < MaxCalls /\ \E x \in TexInputs : UseTexture(x[1], x[2], x[3])
    \/ calls < MaxCalls /\ Clear(TRUE, TRUE)
    \/ calls < MaxCalls /\ SetClearDepth(1000)
    \/ frames < MaxFrames /\ CommitBegin
    \/ \E cts \in BOOLEAN : CommitDrain(cts)
    \/ CommitSwap
    \/ \E cts \in BOOLEAN : CommitKick(cts)

Init == InitOf(DISPLAY_LIST_SIZE)

Spec == Init /\ [][Next]_vars

\* the encoder: every public call
NextEnc ==
    \/ calls < MaxCallsEnc /\ \E t \in TriInputs, cts \in BOOLEAN : DrawTriangle(t, White, cts)
    \/ calls < MaxCallsEnc /\ \E x \in TexInputsEnc : UseTexture(x[1], x[2], x[3])
    \/ calls < MaxCallsEnc /\ \E c, d \in BOOLEAN : Clear(c, d)
    \/ calls < MaxCallsEnc /\ SetClearColor(Grey)
    \/ calls < MaxCallsEnc /\ SetClearDepth(1000)
    \/ calls < MaxCallsEnc /\ SetDepthMask(TRUE)
    \/ calls < MaxCallsEnc /\ EnableDepthTest(TRUE)
    \/ calls < MaxCallsEnc /\ SetColorMask(TRUE, FALSE, TRUE, FALSE)
    \/ calls < MaxCallsEnc /\ SetDepthFunc(TestFunc_ALWAYS)
    \/ calls < MaxCallsEnc /\ SetAlphaFunc(TestFunc_LESS, 8)
    \/ calls < MaxCallsEnc /\ SetTexEnv(TexEnvParam_MODULATE)
    \/ calls < MaxCallsEnc /\ SetBlendFunc(BlendFunc_ZERO, BlendFunc_ONE)
    \/ calls < MaxCallsEnc /\ SetLogicOp(0)
    \/ calls < MaxCallsEnc /\ SetTexEnvColor(Grey)
    \/ calls < MaxCallsEnc /\ SetTextureWrapModeS(TextureWrapMode_CLAMP_TO_EDGE)
    \/ calls < MaxCallsEnc /\ SetTextureWrapModeT(TextureWrapMode_REPEAT)
    \/ frames < MaxFramesEnc /\ CommitBegin
    \/ \E cts \in BOOLEAN : CommitDrain(cts)
    \/ CommitSwap
    \/ \E cts \in BOOLEAN : CommitKick(cts)

InitEnc == InitOf(DISPLAY_LIST_SIZE_ENC)

SpecEnc == InitEnc /\ [][NextEnc]_vars

\* the frame pipeline on the small list, which two calls fill
SpecSmall == InitEnc /\ [][Next]_vars

\* the frame pipeline on a list that a triangle and a clear fill, so that a commit
\* can take the abort path while the frame before it is still being uploaded
NextAbort ==
    \/ calls < MaxCallsAbort /\ \E t \in TriInputs, cts \in BOOLEAN : DrawTriangle(t, White, cts)
    \/ calls < MaxCallsAbort /\ \E x \in TexInputsOverlap : UseTexture(x[1], x[2], x[3])
    \/ calls < MaxCallsAbort /\ Clear(TRUE, TRUE)
    \/ frames < MaxFrames /\ CommitBegin
    \/ \E cts \in BOOLEAN : CommitDrain(cts)
    \/ CommitSwap
    \/ \E cts \in BOOLEAN : CommitKick(cts)

InitAbort == InitOf(DISPLAY_LIST_SIZE_ABORT)

SpecAbort == InitAbort /\ [][NextAbort]_vars

\* the frame pipeline with triangles and textures, where the bus is clear to send
\* infinitely often while commit polls it
NextLive ==
    \/ calls < MaxCallsLive /\ \E t \in TriInputs, cts \in BOOLEAN : DrawTriangle(t, White, cts)
    \/ calls < MaxCallsLive /\ \E x \in TexInputs : UseTexture(x[1], x[2], x[3])
    \/ frames < MaxFrames /\ CommitBegin
    \/ \E cts \in BOOLEAN : CommitDrain(cts)
    \/ CommitSwap
    \/ \E cts \in BOOLEAN : CommitKick(cts)

SpecLive == Init /\ [][NextLive]_vars /\ WF_vars(CommitDrain(TRUE))

(* ------------------------------------------------------------------ *)
(* Properties                                                          *)
(* ------------------------------------------------------------------ *)
\* a linear scan of mem: every opcode is followed by the payload of its class
RECURSIVE WellFormedMem(_)
WellFormedMem(mem) ==
    IF mem = <<>> THEN TRUE
    ELSE /\ Head(mem).ty = "SCT"
         /\ Head(mem).init
         /\ Head(mem).v \in 0..65535
         /\ LET cl == OpClass(Head(mem).v)
                payload(ty) == /\ Len(mem) >= 2
                               /\ mem[2].ty = ty
                               /\ mem[2].init
                               /\ WellFormedMem(SubSeq(mem, 3, Len(mem)))
            IN  CASE cl = NOP \/ cl = FRAMEBUFFER_OP -> WellFormedMem(Tail(mem))
                  [] cl = TRIANGLE_STREAM -> payload("TRI")
                  [] cl = TEXTURE_STREAM -> payload("TSA")
                  [] cl = SET_REG -> payload("U16") /\ mem[2].v \in 0..65535
                  [] OTHER -> FALSE

WellFormedList(l) ==
    /\ WellFormedMem(l.mem)
    /\ \A i \in 1..Len(l.mem) :
           l.mem[i].at = IF i = 1 THEN 0 ELSE l.mem[i - 1].at + sizeOf(l.mem[i - 1].ty)
    /\ l.writePos = MemBytes(l.mem)
    /\ l.readPos <= l.writePos
    /\ l.writePos <= l.cap

\* C1: an encoder call that appends an opcode plus a payload either appends both
\* records to the back list and returns true, or returns false and leaves the back
\* list (write position and contents) exactly as it was.
C1_AllOrNothing ==
    [][(calls' = calls + 1 /\ Len(last'.recs) = 2) =>
          /\ m_backList' = m_backList
          /\ IF last'.ret
             THEN /\ Records(Back') = Records(Back) \o last'.recs
                  /\ Back' = [Back EXCEPT !.mem = Back'.mem,
                                          !.writePos = Back.writePos + sizeOf("SCT")
                                                       + sizeOf(last'.recs[2].ty)]
             ELSE Back' = Back]_vars

\* a call failed although its opcode alone would have fitted: the opcode was rolled back
C1_Witness ==
    /\ ~last.ret
    /\ Len(last.recs) = 2
    /\ getFreeSpace(Back) >= sizeOf("SCT")
    /\ getFreeSpace(Back) < sizeOf("SCT") + sizeOf(last.recs[2].ty)

\* C2: scanned from offset 0 the back list holds only well-formed records, those of
\* the successful calls in submission order; so does the front list while it is walked.
C2_WellFormed ==
    /\ WellFormedList(Back)
    /\ Records(Back) = accepted
    /\ WellFormedList(Front)
    /\ (Front.state # FREE => Records(Front) = frameRecs)

\* the front list is in the middle of a pass while the back list holds records
C2_Witness ==
    /\ Front.state = TRANSFERRING
    /\ Front.readPos > 0
    /\ Back.mem # <<>>

\* C3: outside commit the front and back indices are distinct values in {0, 1} and
\* the back list is FREE; the list commit enqueues is FREE, and the list swapped in
\* as the new back list is drained and cleared.
C3_BackFree ==
    /\ m_frontList \in {0, 1}
    /\ m_backList \in {0, 1}
    /\ (pc = "idle" => m_frontList # m_backList /\ Back.state = FREE)
    /\ (pc = "swap" => Back.state = FREE)
    /\ (pc = "kick" => Back = EmptyList(Back.cap))

\* the second swap: the list that carried the first frame is the back list again
C3_Witness ==
    /\ pc = "kick"
    /\ frames = 2
    /\ m_backList = 1
    /\ Front.state = QUEUED

\* the state in which commit returns after a swap
CommitReturned == pc = "idle" /\ last.op = "commit" /\ last.ret

\* C4 as stated: when commit returns after appending its opcode, the new back list is
\* FREE and the new front list is QUEUED.
C4_Original ==
    CommitReturned => Back.state = FREE /\ Front.state = QUEUED

\* C4 amended: when commit returns after appending its opcode, the new back list is
\* FREE; the new front list is QUEUED if the bus was not clear at commit's last
\* uploadDisplayList, and otherwise already TRANSFERRING (or, with a single band,
\* already FREE again).
C4_CommitReturn ==
    CommitReturned =>
        /\ Back.state = FREE
        /\ tick.ran
        /\ (~tick.cts => Front.state = QUEUED)
        /\ (tick.cts => \/ Front.state = TRANSFERRING
                        \/ Front.state = FREE /\ DISPLAY_LINES = 1)

\* commit returned with a clear bus: the first flush of the new frame is on the bus
C4_Witness ==
    /\ CommitReturned
    /\ tick.cts
    /\ Front.state = TRANSFERRING
    /\ Len(bus) = 2

\* C5: a commit on a back list without room for one opcode clears the back list,
\* leaves the indices, the front list, the band index and the texture cursor alone
\* and makes no bus call; the next encoder call and the next commit are accepted.
C5_AbortPath ==
    [][/\ (pc = "idle" /\ frames' = frames + 1 /\ getFreeSpace(Back) < sizeOf("SCT")) =>
            /\ ~last'.ret
            /\ Back' = EmptyList(Back.cap)
            /\ Front' = Front
            /\ UNCHANGED <<m_frontList, m_backList, m_uploadIndexPosition,
                           m_textureStreamArg, m_displayListUpload, bus>>
            /\ ~tick'.ran
            /\ pc' = "idle"
       /\ (pc = "idle" /\ last.op = "commit" /\ ~last.ret) =>
            /\ (calls' = calls + 1 => last'.ret /\ Records(Back') = last'.recs)
            /\ (frames' = frames + 1 => last'.ret /\ pc' = "drain")]_vars

\* after an aborted commit a register write was accepted, committed and flushed
C5_Witness ==
    /\ frames = 2
    /\ m_frontList = 1
    /\ pc = "idle"
    /\ Len(frameRecs) = 3
    /\ frameRecs[1].v = SET_DEPTH_BUFFER_CLEAR_DEPTH
    /\ Front.state = TRANSFERRING
    /\ \E i \in 1..Len(bus) : bus[i].t = "list" /\ bus[i].recs = frameRecs

\* the arguments of startColorBufferTransfer since the front list was swapped in
StartArgs ==
    LET s == SelectSeq(bus, LAMBDA e : e.t = "start")
    IN  [i \in 1..Len(s) |-> s[i].a]

\* the frame that was swapped in has been walked to its end
FrameDone == Front.state = FREE /\ bus # <<>>

\* C6 as stated: the startColorBufferTransfer arguments of a frame start with
\* DISPLAY_LINES - 1, end with 0 and are strictly decreasing.
C6_Original ==
    /\ (StartArgs # <<>> => StartArgs[1] = DISPLAY_LINES - 1)
    /\ \A i \in 1..(Len(StartArgs) - 1) : StartArgs[i + 1] < StartArgs[i]
    /\ (FrameDone => StartArgs[Len(StartArgs)] = 0)

\* C6 amended: the startColorBufferTransfer arguments of a frame start with
\* DISPLAY_LINES - 1, end with 0 and never increase; each is the one before it or that
\* minus one, a band whose pass is split over several flushes being announced once
\* per flush.
C6_BandOrder ==
    /\ (StartArgs # <<>> => StartArgs[1] = DISPLAY_LINES - 1)
    /\ \A i \in 1..(Len(StartArgs) - 1) :
           StartArgs[i + 1] = StartArgs[i] \/ StartArgs[i + 1] = StartArgs[i] - 1
    /\ (FrameDone => StartArgs # <<>> /\ StartArgs[Len(StartArgs)] = 0)

\* a finished frame whose band passes were split: more flushes than bands
C6_Witness ==
    /\ FrameDone
    /\ Len(StartArgs) > DISPLAY_LINES
    /\ StartArgs[1] = StartArgs[2]
    /\ StartArgs[Len(StartArgs)] = 0

\* the records of a sequence of upload-list flushes, in bus order
RECURSIVE Flat(_)
Flat(evs) == IF evs = <<>> THEN <<>> ELSE Head(evs).recs \o Flat(Tail(evs))

\* the records written to the bus for band b of the frame that was swapped in
BandRecs(b) == Flat(SelectSeq(bus, LAMBDA e : e.t = "list" /\ e.a = b))

\* the triangles written for band b, and the number of TRIANGLE_STREAM opcodes
WrittenTriangles(b) ==
    LET ts == SelectSeq(BandRecs(b), LAMBDA e : e.ty = "TRI")
    IN  [i \in 1..Len(ts) |-> ts[i].v]

WrittenOpcodes(b) ==
    Len(SelectSeq(BandRecs(b),
                  LAMBDA e : e.ty = "SCT" /\ OpClass(e.v) = TRIANGLE_STREAM))

\* the accepted triangles of the frame, and those of them that touch band b
FrameTriangles ==
    LET ts == SelectSeq(frameRecs, LAMBDA e : e.ty = "TRI")
    IN  [i \in 1..Len(ts) |-> ts[i].v]

Touches(tri, b) ==
    calcLineIncrement(tri, b * LINE_RESOLUTION, (b + 1) * LINE_RESOLUTION)

ExpectedTriangles(b) ==
    LET ts == SelectSeq(FrameTriangles, LAMBDA t : Touches(t, b))
    IN  [i \in 1..Len(ts) |-> LineIncrement(ts[i], b * LINE_RESOLUTION)]

IsPrefix(a, b) == Len(a) <= Len(b) /\ a = SubSeq(b, 1, Len(a))

RECURSIVE SumUpTo(_, _)
SumUpTo(f, n) == IF n < 0 THEN 0 ELSE f[n] + SumUpTo(f, n - 1)

Bands == 0..(DISPLAY_LINES - 1)

\* C7: in each band the triangles written to the bus are, in order, the accepted
\* triangles of the frame that touch the band, each once and with one
\* TRIANGLE_STREAM opcode, also when the band pass is split over several ticks; for
\* a finished frame the number of TRIANGLE_STREAM opcodes on the bus is the sum over
\* the triangles of the number of bands they touch.
C7_TrianglesPerBand ==
    /\ \A i \in 1..Len(bus) : bus[i].t = "list" => bus[i].a \in Bands
    /\ \A b \in Bands :
           /\ IsPrefix(WrittenTriangles(b), ExpectedTriangles(b))
           /\ WrittenOpcodes(b) = Len(WrittenTriangles(b))
           /\ (FrameDone => WrittenTriangles(b) = ExpectedTriangles(b))
    /\ (FrameDone =>
           SumUpTo([b \in Bands |-> WrittenOpcodes(b)], DISPLAY_LINES - 1)
             = SumUpTo([i \in 0..Len(FrameTriangles) |->
                          IF i = 0 THEN 0
                          ELSE Cardinality({b \in Bands : Touches(FrameTriangles[i], b)})],
                       Len(FrameTriangles)))

\* a finished frame of two triangles, one of them outside the upper band, whose band
\* passes were split
C7_Witness ==
    /\ FrameDone
    /\ Len(FrameTriangles) = 2
    /\ Len(ExpectedTriangles(DISPLAY_LINES - 1)) = 1
    /\ Len(ExpectedTriangles(0)) = 2
    /\ WrittenOpcodes(0) = 2
    /\ Len(StartArgs) > DISPLAY_LINES

\* the writeData calls among the bus calls ev
Writes(ev) == SelectSeq(ev, LAMBDA e : e.t = "list" \/ e.t = "texture")

\* C8: a call of uploadDisplayList makes no bus call unless clearToSend() was true in
\* that call, makes at most one writeData, of at most HARDWARE_BUFFER_SIZE bytes, and
\* with clearToSend() false returns true and changes no driver state.
C8_TickDiscipline ==
    [][tick'.ran =>
          /\ bus' = bus \o tick'.ev
          /\ Len(Writes(tick'.ev)) <= 1
          /\ \A i \in 1..Len(tick'.ev) :
                 tick'.ev[i].len >= 0 /\ tick'.ev[i].len <= HARDWARE_BUFFER_SIZE
          /\ (~tick'.cts =>
                 /\ tick'.ev = <<>>
                 /\ tick'.ret
                 /\ Front' = Front
                 /\ UNCHANGED <<m_displayListUpload, m_uploadIndexPosition,
                                m_textureStreamArg, m_frontList, m_backList,
                                m_confReg1, m_confReg2>>
                 /\ (pc # "idle" => m_displayList' = m_displayList))]_vars

\* a tick with a clear bus that wrote a completely filled upload list
C8_Witness ==
    /\ tick.ran
    /\ tick.cts
    /\ Len(tick.ev) = 2
    /\ tick.ev[1].t = "start"
    /\ tick.ev[2].t = "list"
    /\ tick.ev[2].len = HARDWARE_BUFFER_SIZE

\* no call of uploadDisplayList dereferences a null record pointer
NoFault == ~tick.fault

\* what one call of uploadDisplayList with a clear bus achieves on a front list that
\* is not FREE: a texture chunk, a consumed record, or a finished band
TickProgress ==
    \/ /\ Len(tick'.ev) = 1
       /\ tick'.ev[1].t = "texture"
       /\ m_textureStreamArg'.remainingPixels < m_textureStreamArg.remainingPixels
       /\ m_textureStreamArg'.remainingPixels >= 0
    \/ /\ Len(tick'.ev) = 2
       /\ Front'.readPos > Front.readPos
    \/ /\ Len(tick'.ev) = 2
       /\ Front'.readPos = 0
       /\ \/ m_uploadIndexPosition' = tick'.ev[1].a - 1
          \/ Front'.state = FREE

\* C9: with clearToSend() true infinitely often the drain loop of commit ends: every
\* call of uploadDisplayList with a clear bus on an unfinished front list pushes a
\* texture chunk, consumes a record or finishes a band, and commit leaves the loop
\* with the front list FREE.
C9_DrainTerminates ==
    /\ [][(tick'.ran /\ tick'.cts /\ Front.state # FREE) => TickProgress]_vars
    /\ [](pc = "swap" => Back.state = FREE /\ Front.state = FREE)
    /\ ((pc = "drain") ~> (pc = "swap"))

\* commit left the drain loop after walking a frame with a texture to its end, all
\* of it inside the loop but the first flush
C9_Witness ==
    /\ pc = "swap"
    /\ calls = 1
    /\ FrameDone
    /\ Len(bus) >= 8
    /\ \E i \in 1..Len(bus) : bus[i].t = "texture"

\* the width of the texture a TEXTURE_STREAM opcode announces
TextureWidth(op) ==
    CASE op = TEXTURE_STREAM_32x32 -> 32
      [] op = TEXTURE_STREAM_64x64 -> 64
      [] op = TEXTURE_STREAM_128x128 -> 128
      [] op = TEXTURE_STREAM_256x256 -> 256
      [] OTHER -> 0

\* bus call i is an upload-list flush that ends with a TEXTURE_STREAM opcode
EndsWithTexture(i) ==
    /\ bus[i].t = "list"
    /\ bus[i].recs # <<>>
    /\ bus[i].recs[Len(bus[i].recs)].ty = "SCT"
    /\ OpClass(bus[i].recs[Len(bus[i].recs)].v) = TEXTURE_STREAM

\* the number of chunks the texture announced at the end of flush i is sent in
Chunks(i) ==
    LET w == TextureWidth(bus[i].recs[Len(bus[i].recs)].v)
    IN  (w * w * 2) \div HARDWARE_BUFFER_SIZE

\* C10: a TEXTURE_STREAM command for a w x w texture that is not elided ends an
\* upload-list flush; the next w*w*2/2048 bus calls, one per call of
\* uploadDisplayList with a clear bus, are writeData calls of 2048 bytes from
\* consecutive 1024-pixel offsets of the buffer of that command, the call after them
\* is not a texture write, and no texture write happens anywhere else.
C10_TextureChunks ==
    /\ \A i \in 1..Len(bus) :
           EndsWithTexture(i) =>
              /\ Chunks(i) >= 1
              /\ \E k \in 1..(Len(frameRecs) - 1) :
                     /\ frameRecs[k].ty = "SCT"
                     /\ frameRecs[k].v = bus[i].recs[Len(bus[i].recs)].v
                     /\ frameRecs[k + 1].ty = "TSA"
                     /\ frameRecs[k + 1].v = bus[i].cur
              /\ bus[i].cur.remainingPixels = Chunks(i) * PIXEL_INC
              /\ \A j \in 1..Chunks(i) :
                     i + j <= Len(bus) =>
                        /\ bus[i + j].t = "texture"
                        /\ bus[i + j].len = HARDWARE_BUFFER_SIZE
                        /\ bus[i + j].a = bus[i].cur.pixels + (j - 1) * 1024
              /\ (i + Chunks(i) + 1 <= Len(bus) => bus[i + Chunks(i) + 1].t = "start")
              /\ (Len(bus) < i + Chunks(i) =>
                     /\ Front.state = TRANSFERRING
                     /\ m_textureStreamArg.remainingPixels
                          = (i + Chunks(i) - Len(bus)) * PIXEL_INC)
    /\ \A j \in 1..Len(bus) :
           bus[j].t = "texture" =>
              \E i \in 1..(j - 1) :
                 /\ EndsWithTexture(i)
                 /\ j - i <= Chunks(i)
    /\ (tick.ran /\ \E j \in 1..Len(tick.ev) : tick.ev[j].t = "texture") =>
           tick.cts /\ Len(tick.ev) = 1

\* a 64 x 64 texture went out in four chunks and the next flush has begun
C10_Witness ==
    \E i \in 1..Len(bus) :
        /\ EndsWithTexture(i)
        /\ Chunks(i) = 4
        /\ Len(bus) >= i + 5
        /\ \A j \in 1..4 : bus[i + j].t = "texture"
        /\ bus[i + 4].a = PixelsA + 3072
        /\ bus[i + 5].t = "start"

\* the payloads of the TEXTURE_STREAM commands of the frame that was swapped in
FrameTextures ==
    LET ts == SelectSeq(frameRecs, LAMBDA e : e.ty = "TSA")
    IN  [i \in 1..Len(ts) |-> ts[i].v]

\* the frame holds two back-to-back TEXTURE_STREAM commands and all its texture
\* commands name the same buffer and size
SameTextureTwice ==
    /\ Len(FrameTextures) >= 2
    /\ \A i \in 1..Len(FrameTextures) : FrameTextures[i] = FrameTextures[1]
    /\ \E k \in 1..(Len(frameRecs) - 3) :
           frameRecs[k + 1].ty = "TSA" /\ frameRecs[k + 3].ty = "TSA"

\* the band under which bus call j was made: the argument of the last
\* startColorBufferTransfer before it
BandOf(j) ==
    LET s == { i \in 1..j : bus[i].t = "start" }
    IN  IF s = {} THEN -1 ELSE bus[CHOOSE i \in s : \A k \in s : k <= i].a

\* the texture bytes written to the bus during the pass of band b
TextureBytes(b) ==
    LET s == { j \in 1..Len(bus) : bus[j].t = "texture" /\ BandOf(j) = b }
    IN  SumUpTo([j \in 0..Len(bus) |-> IF j \in s THEN bus[j].len ELSE 0], Len(bus))

\* the bytes of the texture the frame uses
FrameTextureBytes == FrameTextures[1].remainingPixels * 2

\* the frame that was swapped in is the first one: it opens with the register
\* records of the constructor, and the walker's cursor was {nullptr, 0} before it
FirstFrame ==
    /\ frameRecs # <<>>
    /\ frameRecs[1].ty = "SCT"
    /\ frameRecs[1].v = SET_CONF_REG1

C12_Original ==
    last.op = "drawTriangle" => tick.ran

\* the front list is FREE and holds nothing
FrontIdle ==
    /\ Front.state = FREE
    /\ Front.mem = <<>>
    /\ Front.writePos = 0
    /\ Front.readPos = 0

Reg1Setters ==
    {"setDepthMask", "enableDepthTest", "setColorMask", "setDepthFunc", "setAlphaFunc"}

Reg2Setters ==
    {"setTexEnv", "setBlendFunc", "setTextureWrapModeS", "setTextureWrapModeT"}

\* the back list holds a record with opcode op, and the payload of the last such
\* record is v
MostRecentIs(op, v) ==
    LET r == Records(Back)
        s == { k \in 1..(Len(r) - 1) : r[k].ty = "SCT" /\ r[k].v = op }
    IN  /\ s # {}
        /\ r[(CHOOSE k \in s : \A j \in s : j <= k) + 1].v = v

\* C14: after a call of a setter of ConfReg1 the payload of the most recent
\* SET_CONF_REG1 record of the back list equals the register in memory, bit for bit;
\* likewise for ConfReg2 and SET_CONF_REG2.
C14_Original ==
    /\ (last.op \in Reg1Setters => MostRecentIs(SET_CONF_REG1, PackConfReg1(m_confReg1)))
    /\ (last.op \in Reg2Setters => MostRecentIs(SET_CONF_REG2, PackConfReg2(m_confReg2)))

\* the walker wrote a texture chunk in the last call of uploadDisplayList
WroteTexture == tick.ran /\ \E j \in 1..Len(tick.ev) : tick.ev[j].t = "texture"

\* C15, for the first frame: once the commit call after the frame's own commit has
\* returned, no texture chunk is written to the bus from a pixel buffer of that frame.
C15_Original ==
    (pc = "idle" /\ frames >= 2 /\ FirstFrame) => ~WroteTexture

\* the entries of s at the indices in K, in order, from index i on
RECURSIVE Pick(_, _, _)
Pick(s, K, i) ==
    IF i > Len(s) THEN <<>>
    ELSE (IF i \in K THEN <<s[i]>> ELSE <<>>) \o Pick(s, K, i + 1)

SameEntry(x, y) == x.ty = y.ty /\ x.v = y.v

\* a is a subsequence of b, entry by entry in order
RECURSIVE IsSubseq(_, _)
IsSubseq(a, b) ==
    IF a = <<>> THEN TRUE
    ELSE IF b = <<>> THEN FALSE
    ELSE IF SameEntry(Head(a), Head(b)) THEN IsSubseq(Tail(a), Tail(b))
    ELSE IsSubseq(a, Tail(b))

IsTextureOp(e) == e.ty = "SCT" /\ OpClass(e.v) = TEXTURE_STREAM

\* the entries of the frame as the pass of band b copies them: the triangle of a
\* command specialised to the band, the TextureStreamArg of a texture command left to
\* the chunk writes, triangles outside the band left out with their opcode
InBand(b) ==
    LET keep(i) ==
            LET e == frameRecs[i]
            IN  CASE e.ty = "U16" -> TRUE
                  [] e.ty = "TSA" -> FALSE
                  [] e.ty = "TRI" -> Touches(e.v, b)
                  [] e.ty = "SCT" ->
                        IF OpClass(e.v) = TRIANGLE_STREAM
                        THEN i < Len(frameRecs) /\ Touches(frameRecs[i + 1].v, b)
                        ELSE TRUE
        s == Pick(frameRecs, { i \in 1..Len(frameRecs) : keep(i) }, 1)
    IN  [i \in 1..Len(s) |->
            IF s[i].ty = "TRI"
            THEN [s[i] EXCEPT !.v = LineIncrement(s[i].v, b * LINE_RESOLUTION)]
            ELSE s[i]]

\* the same without the texture opcodes, which the dedup check may drop
InBandNoTexture(b) == SelectSeq(InBand(b), LAMBDA e : ~IsTextureOp(e))

WrittenNoTexture(b) == SelectSeq(BandRecs(b), LAMBDA e : ~IsTextureOp(e))

\* the pass of band b has reached the end of the front list
BandDone(b) ==
    \/ FrameDone
    \/ \E i \in 1..Len(bus) : bus[i].t = "start" /\ bus[i].a < b

\* C16: the records a band pass writes are a subsequence of the front list in
\* submission order; apart from texture opcodes, which the dedup check may drop, they
\* are exactly the frame's records without the triangles outside the band, so every
\* SET_REG record (payload unchanged) and every FRAMEBUFFER_OP/NOP opcode is written
\* once in each band pass.
C16_BandOrder ==
    \A b \in Bands :
        \A f \in {InBand(b)}, w \in {BandRecs(b)} :
            \A fn \in {SelectSeq(f, LAMBDA e : ~IsTextureOp(e))},
               wn \in {SelectSeq(w, LAMBDA e : ~IsTextureOp(e))} :
                /\ IsSubseq(w, f)
                /\ Len(wn) <= Len(fn)
                /\ \A i \in 1..Len(wn) : SameEntry(wn[i], fn[i]) /\ wn[i].init
                /\ (BandDone(b) => Len(wn) = Len(fn))

\* the first frame, finished, with a texture command that was dropped in the second
\* band pass and a triangle that lies outside the first
C16_Witness ==
    /\ FrameDone
    /\ FirstFrame
    /\ DISPLAY_LINES >= 2
    /\ Len(FrameTextures) >= 1
    /\ Len(BandRecs(0)) < Len(InBand(0))
    /\ Len(FrameTriangles) >= 1
    /\ Len(ExpectedTriangles(DISPLAY_LINES - 1)) < Len(FrameTriangles)
    /\ Len(WrittenNoTexture(0)) > Len(WrittenNoTexture(DISPLAY_LINES - 1))

\* everything of the driver but the back list is left as it was
OnlyBackListMayChange ==
    /\ m_displayList'[m_frontList] = m_displayList[m_frontList]
    /\ UNCHANGED <<m_displayListUpload, m_frontList, m_backList, m_uploadIndexPosition,
                   m_textureStreamArg, m_confReg1, m_confReg2, bus>>

\* C17: useTexture with a size that is not square or not one of 32, 64, 128, 256
\* returns false and changes no driver state; with an accepted size it appends the
\* TEXTURE_STREAM opcode of that size and a TextureStreamArg with the pixel pointer
\* and remainingPixels = texWidth * texHeight, or, when the two do not fit, returns
\* false and leaves the back list as it was.
C17_UseTexture ==
    [][\A x \in TexInputsEnc :
          UseTexture(x[1], x[2], x[3]) =>
             /\ OnlyBackListMayChange
             /\ IF x[2] # x[3] \/ x[2] \notin {32, 64, 128, 256}
                THEN ~last'.ret /\ Back' = Back
                ELSE IF last'.ret
                THEN /\ Len(Back'.mem) = Len(Back.mem) + 2
                     /\ \A i \in 1..Len(Back.mem) : Back'.mem[i] = Back.mem[i]
                     /\ Records(Back')[Len(Back.mem) + 1]
                          = [ty |-> "SCT", v |-> TEXTURE_STREAM + 17 * (x[2] \div 32),
                             init |-> TRUE]
                     /\ Records(Back')[Len(Back.mem) + 2]
                          = [ty |-> "TSA",
                             v |-> [pixels |-> x[1], remainingPixels |-> x[2] * x[3]],
                             init |-> TRUE]
                     /\ Back'.writePos = Back.writePos + sizeOf("SCT") + sizeOf("TSA")
                ELSE /\ Back' = Back
                     /\ getFreeSpace(Back) < sizeOf("SCT") + sizeOf("TSA")]_vars

\* useTexture with an accepted size was refused by a back list that had room for the
\* opcode but not for the opcode and its argument
C17_Witness ==
    /\ last.op = "useTexture"
    /\ ~last.ret
    /\ last.recs # <<>>
    /\ getFreeSpace(Back) >= sizeOf("SCT")
    /\ getFreeSpace(Back) < sizeOf("SCT") + sizeOf("TSA")

\* the texture commands of the frame that differ in buffer or size from the texture
\* command before them (the first one differs from the empty cursor)
ChangesOfTexture ==
    { i \in 1..Len(FrameTextures) : i = 1 \/ FrameTextures[i] # FrameTextures[i - 1] }

\* the texture opcodes written to the bus during the pass of band b
TextureOpsWritten(b) == Len(SelectSeq(BandRecs(b), IsTextureOp))

\* C18, for the first band pass of the first frame: a TEXTURE_STREAM command is
\* elided only if its buffer and size are those of the upload completed last, so
\* every command that differs from the one before it is written and uploaded.
C18_Original ==
    (FirstFrame /\ BandDone(DISPLAY_LINES - 1)) =>
        /\ TextureOpsWritten(DISPLAY_LINES - 1) = Cardinality(ChangesOfTexture)
        /\ (FrameDone =>
               TextureBytes(DISPLAY_LINES - 1)
                 >= SumUpTo([i \in 0..Len(FrameTextures) |->
                                IF i \in ChangesOfTexture
                                THEN FrameTextures[i].remainingPixels * 2 ELSE 0],
                            Len(FrameTextures)))

\* C19: in the fill loop of uploadDisplayList no create on the upload list and no
\* getNext for the payload of a popped opcode returns null; every entry of the upload
\* list has been written, and the list that is flushed never exceeds
\* HARDWARE_BUFFER_SIZE bytes.
C19_FillLoopSafe ==
    /\ ~tick.fault
    /\ getSize(m_displayListUpload) <= HARDWARE_BUFFER_SIZE
    /\ m_displayListUpload.writePos = MemBytes(m_displayListUpload.mem)
    /\ \A i \in 1..Len(m_displayListUpload.mem) : m_displayListUpload.mem[i].init
    /\ \A j \in 1..Len(bus) : bus[j].t = "list" => bus[j].len <= HARDWARE_BUFFER_SIZE

\* a flush whose upload list was filled to the last byte: the guard ended the loop
C19_Witness ==
    /\ tick.ran
    /\ Len(tick.ev) = 2
    /\ tick.ev[2].len = HARDWARE_BUFFER_SIZE
    /\ getSize(m_displayListUpload) = HARDWARE_BUFFER_SIZE
    /\ Front.state = TRANSFERRING
    /\ ~atEnd(Front)

\* C20: remainingPixels of the texture cursor is always a non-negative multiple of
\* 1024 (HARDWARE_BUFFER_SIZE / 2); while it is positive the only change of the
\* cursor is one chunk (pixels advanced and remainingPixels reduced by 1024), so the
\* fill loop replaces the cursor only when remainingPixels is 0 and an upload in
\* flight is never overwritten.
C20_CursorChunks ==
    /\ [](/\ m_textureStreamArg.remainingPixels >= 0
          /\ m_textureStreamArg.remainingPixels % PIXEL_INC = 0
          /\ PIXEL_INC = 1024)
    /\ [][(m_textureStreamArg.remainingPixels > 0
             /\ m_textureStreamArg' # m_textureStreamArg) =>
               /\ m_textureStreamArg'.pixels = m_textureStreamArg.pixels + PIXEL_INC
               /\ m_textureStreamArg'.remainingPixels
                    = m_textureStreamArg.remainingPixels - PIXEL_INC
               /\ tick'.ev = <<EvTexture(m_textureStreamArg.pixels, 2 * PIXEL_INC)>>]_vars
    /\ [][(tick'.ran /\ \E j \in 1..Len(tick'.ev) : tick'.ev[j].t = "list") =>
               m_textureStreamArg.remainingPixels = 0]_vars

\* the last chunk of an upload has been written: the cursor reached 0 from 1024
C20_Witness ==
    /\ WroteTexture
    /\ m_textureStreamArg.remainingPixels = 0
    /\ \E i \in 1..Len(FrameTextures) :
           /\ FrameTextures[i].remainingPixels = 4 * PIXEL_INC
           /\ m_textureStreamArg.pixels
                = FrameTextures[i].pixels + FrameTextures[i].remainingPixels

\* the bus calls ev of one tick are a band pass: startColorBufferTransfer and the
\* upload list
IsBandPass(ev) == Len(ev) = 2 /\ ev[1].t = "start" /\ ev[2].t = "list"

\* the band pass ev copied the commit opcode, the last entry of a frame's list: the
\* pass reached the end of the front list
ReachedEnd(ev) ==
    /\ IsBandPass(ev)
    /\ ev[2].recs # <<>>
    /\ ev[2].recs[Len(ev[2].recs)].ty = "SCT"
    /\ ev[2].recs[Len(ev[2].recs)].v = CommitOp

\* C21: m_uploadIndexPosition is in 0..DISPLAY_LINES-1 while the front list is
\* TRANSFERRING and never goes below 0; a tick rewinds the read position of the front
\* list to 0 exactly when its band pass reaches the end of the list, and leaves it
\* alone when it makes no band pass; the front list is cleared (read and write
\* position 0, state FREE) exactly when the pass for band 0 reaches the end, and that
\* tick returns false; the pass of any other band that reaches the end moves to the
\* band below and returns true.
C21_BandIndex ==
    /\ [](/\ m_uploadIndexPosition >= 0
          /\ Front.state = TRANSFERRING => m_uploadIndexPosition \in 0..(DISPLAY_LINES - 1))
    /\ [][tick'.ran =>
            /\ m_frontList' = m_frontList
            /\ IsBandPass(tick'.ev) => (Front'.readPos = 0 <=> ReachedEnd(tick'.ev))
            /\ ~IsBandPass(tick'.ev) =>
                   /\ Front'.readPos = Front.readPos
                   /\ m_uploadIndexPosition' =
                        (IF tick'.cts /\ Front.state = QUEUED
                         THEN DISPLAY_LINES - 1 ELSE m_uploadIndexPosition)
            /\ (Front.state # FREE /\ Front'.state = FREE)
                 <=> (ReachedEnd(tick'.ev) /\ tick'.ev[1].a = 0)
            /\ (ReachedEnd(tick'.ev) /\ tick'.ev[1].a = 0) =>
                   /\ Front'.readPos = 0
                   /\ Front'.writePos = 0
                   /\ Front'.state = FREE
                   /\ ~tick'.ret
                   /\ m_uploadIndexPosition' = 0
            /\ (ReachedEnd(tick'.ev) /\ tick'.ev[1].a > 0) =>
                   /\ m_uploadIndexPosition' = tick'.ev[1].a - 1
                   /\ Front'.state = TRANSFERRING
                   /\ Front'.writePos = Front.writePos
                   /\ tick'.ret
            /\ (IsBandPass(tick'.ev) /\ ~ReachedEnd(tick'.ev)) =>
                   /\ m_uploadIndexPosition' = tick'.ev[1].a
                   /\ Front'.state = TRANSFERRING
                   /\ Front'.readPos > Front.readPos
                   /\ tick'.ret]_vars

\* the pass for band 0 reached the end after a pass for band 0 that did not: the
\* front list is cleared and the tick returned false
C21_Witness ==
    /\ tick.ran
    /\ ~tick.ret
    /\ ReachedEnd(tick.ev)
    /\ tick.ev[1].a = 0
    /\ Front.state = FREE
    /\ Front.readPos = 0
    /\ Front.writePos = 0
    /\ m_uploadIndexPosition = 0
    /\ \E j \in 1..Len(bus) : bus[j].t = "list" /\ bus[j].a = DISPLAY_LINES - 1
    /\ Len(SelectSeq(bus, LAMBDA e : e.t = "list" /\ e.a = 0)) >= 2

====
